---- MODULE Spec2Model ----
(***************************************************************************)
(* Model of the registration / login service: server.js (Express handlers  *)
(* and the lazy store initialisation ensureDb) on top of db.js (the pg     *)
(* connection pool, the users schema and initDatabase).                    *)
(*                                                                         *)
(* Node runs every handler on one thread: a handler runs without           *)
(* interruption from one await to the next, and the continuations of a     *)
(* settled promise (microtasks) run before the next incoming request is    *)
(* looked at.  One action of the model is therefore one such run.          *)
(***************************************************************************)
EXTENDS Integers, Sequences, FiniteSets, TLC

\* Number of request slots, i.e. of requests that can be in flight together.
MaxReq == 2

Reqs == 1 .. MaxReq

-----------------------------------------------------------------------------
(* JavaScript values of a JSON request body, and String.prototype.trim.    *)

Undefined == [t |-> "undefined"]
Num == [t |-> "number"]
Str(s) == [t |-> "string", s |-> s]

IsWhite(c) == c = " "

RECURSIVE TrimStart(_)
TrimStart(s) == IF s # <<>> /\ IsWhite(Head(s)) THEN TrimStart(Tail(s)) ELSE s

RECURSIVE TrimEnd(_)
TrimEnd(s) ==
  IF s # <<>> /\ IsWhite(s[Len(s)]) THEN TrimEnd(SubSeq(s, 1, Len(s) - 1)) ELSE s

\* v.trim() of a string value
Trim(v) == Str(TrimEnd(TrimStart(v.s)))

\* !v is false: undefined and the empty string are falsy, every other
\* string (one made of spaces too) and every non-zero number is truthy
Truthy(v) == v # Undefined /\ v # Str(<<>>)

-----------------------------------------------------------------------------
(* Errors: what the handlers read of a thrown error is err.code and        *)
(* err.message.  A message is the sequence of its words.                   *)

NoCode == "undefined"

Err(code, message) == [code |-> code, message |-> message]

\* err.message && err.message.includes(word)
MessageIncludes(err, word) ==
  /\ err.message # <<>>
  /\ \E i \in 1 .. Len(err.message) : err.message[i] = word

\* What pool.connect() / client.query() of initDatabase reject with when
\* the store cannot be reached or is misconfigured.
ConnRefused == Err("ECONNREFUSED", <<"connect", "ECONNREFUSED">>)
TimedOut == Err("ETIMEDOUT", <<"connect", "ETIMEDOUT">>)
HostNotFound == Err("ENOTFOUND", <<"getaddrinfo", "ENOTFOUND">>)
ConnLost == Err(NoCode, <<"Connection", "terminated", "unexpectedly">>)
NoDbPassword == Err(NoCode, <<"client", "password", "must", "be", "a", "string">>)
AuthFailed == Err("28P01", <<"password", "authentication", "failed">>)

UnreachableFaults == {ConnRefused, TimedOut, HostNotFound, ConnLost}
MisconfiguredFaults == {NoDbPassword}
OtherFaults == {AuthFailed}
InitFaults == UnreachableFaults \cup MisconfiguredFaults \cup OtherFaults

\* pool is the pg Pool of db.js; the execute helper of db.js is exported
\* beside it and is no method of it, so pool.execute is undefined and
\* calling it throws.
ExecuteNotAFunction == Err(NoCode, <<"pool.execute", "is", "not", "a", "function">>)

\* bcrypt.hash rejects for data that is neither a string nor a Buffer
HashDataError == Err(NoCode, <<"data", "must", "be", "a", "string", "or", "Buffer">>)

-----------------------------------------------------------------------------
(* bcrypt                                                                  *)

SaltRounds == 10

Salts == {"s1", "s2"}

BcryptHash(pw, salt) ==
  [alg |-> "bcrypt", rounds |-> SaltRounds, salt |-> salt, of |-> pw.s]

BcryptCompare(pw, hash) == pw.t = "string" /\ hash.of = pw.s

-----------------------------------------------------------------------------
(* The users relation and its schema.                                      *)

Row(id, user_id, email, pw, salt) ==
  [id |-> id, user_id |-> user_id, name |-> <<"n">>, email |-> email,
   phone |-> <<"5">>, password |-> BcryptHash(Str(pw), salt)]

\* id SERIAL PRIMARY KEY
PrimaryKeyId(tbl) == \A r1, r2 \in tbl : r1.id = r2.id => r1 = r2

\* user_id VARCHAR(255) NOT NULL UNIQUE
UniqueUserId(tbl) == \A r1, r2 \in tbl : r1.user_id = r2.user_id => r1 = r2

\* email VARCHAR(255) NOT NULL UNIQUE
UniqueEmail(tbl) == \A r1, r2 \in tbl : r1.email = r2.email => r1 = r2

CreateUsersTable(tbl) == PrimaryKeyId(tbl) /\ UniqueUserId(tbl) /\ UniqueEmail(tbl)

\* Rows an earlier life of the service may have left in the store
\* (CREATE TABLE IF NOT EXISTS keeps them).  Row 2's email is row 1's
\* user_id; row 3 collides with row 1 on email and with row 2 on user_id.
StoredRows ==
  { Row(1, <<"a">>, <<"e">>, <<"p">>, "s1"),
    Row(2, <<"b">>, <<"a">>, <<"q">>, "s2"),
    Row(3, <<"b">>, <<"e">>, <<"p">>, "s1") }

InitialTables == { tbl \in SUBSET StoredRows : CreateUsersTable(tbl) }

-----------------------------------------------------------------------------
(* pool.execute as server.js calls it                                      *)

\* pool.execute that sends the INSERT and fails afterwards
ExecuteWritesThenThrows(tbl, sql, params) ==
  [ok |-> FALSE, err |-> ExecuteNotAFunction, rows |-> <<>>,
   table |-> IF sql = "INSERT"
             THEN tbl \cup {[id |-> 0, user_id |-> params[1].s, name |-> params[2].s,
                             email |-> params[3].s, phone |-> params[4].s,
                             password |-> params[5]]}
             ELSE tbl]

\* pool.execute that runs the INSERT as a REPLACE: the row holding the
\* user_id or the email gives way to the new one
ExecuteReplaces(tbl, sql, params) ==
  [ok |-> TRUE, err |-> [none |-> TRUE], rows |-> <<>>,
   table |-> IF sql = "INSERT"
             THEN { row \in tbl : row.user_id # params[1].s /\ row.email # params[3].s }
                  \cup {[id |-> 0, user_id |-> params[1].s, name |-> params[2].s,
                          email |-> params[3].s, phone |-> params[4].s,
                          password |-> params[5]]}
             ELSE tbl]

\* pool.execute that runs the statement in the store: the INSERT adds its
\* row unless a UNIQUE column holds the value already, the SELECT returns
\* the row with that user_id or email
ExecuteInserts(tbl, sql, params) ==
  LET new == [id |-> 0, user_id |-> params[1].s, name |-> params[2].s,
              email |-> params[3].s, phone |-> params[4].s, password |-> params[5]]
      found == { row \in tbl : row.user_id = params[1].s \/ row.email = params[2].s }
  IN  IF sql = "INSERT"
      THEN IF CreateUsersTable(tbl \cup {new})
           THEN [ok |-> TRUE, err |-> [none |-> TRUE], rows |-> <<>>,
                 table |-> tbl \cup {new}]
           ELSE [ok |-> FALSE, err |-> Err("23505", <<"duplicate", "key", "value">>),
                 rows |-> <<>>, table |-> tbl]
      ELSE [ok |-> TRUE, err |-> [none |-> TRUE],
            rows |-> IF sql = "SELECT" /\ found # {}
                     THEN <<CHOOSE row \in found : TRUE>> ELSE <<>>,
            table |-> tbl]

\* The call throws TypeError before anything is sent to the store: no row
\* is read and the table is left as it is.
PoolExecute(tbl, sql, params) ==
  [ok |-> FALSE, err |-> ExecuteNotAFunction, rows |-> <<>>, table |-> tbl]

-----------------------------------------------------------------------------
(* Responses                                                                *)

Json(status, success, message) ==
  [status |-> status, success |-> success, message |-> message]

NoRes == [status |-> 0]

\* catch block of POST /api/register
RegisterCatch(err) ==
  IF err.code = "ER_DUP_ENTRY"
  THEN Json(400, FALSE, "User ID or Email already exists.")
  ELSE IF MessageIncludes(err, "DB_PASSWORD")
  THEN Json(500, FALSE, "Database configuration error. Please check server logs.")
  ELSE IF err.code = "ECONNREFUSED" \/ err.code = "ETIMEDOUT"
  THEN Json(500, FALSE, "Database connection failed. Please try again later.")
  ELSE Json(500, FALSE, "Server error. Please try again.")

\* a catch block of login that reports the error as the one of health does
LoginCatchLeaks(err) ==
  [status |-> 500, success |-> FALSE, message |-> "Server error. Please try again.",
   error |-> err.message, code |-> err.code]

\* catch block of POST /api/login
LoginCatch(err) ==
  IF MessageIncludes(err, "DB_PASSWORD")
  THEN Json(500, FALSE, "Database configuration error. Check Vercel environment variables.")
  ELSE IF err.code = "ECONNREFUSED" \/ err.code = "ETIMEDOUT"
          \/ err.code = "PROTOCOL_CONNECTION_LOST"
  THEN Json(500, FALSE, "Database connection failed. Please try again later.")
  ELSE IF err.code = "ENOTFOUND"
  THEN Json(500, FALSE, "Database host not found. Check DB_HOST environment variable.")
  ELSE Json(500, FALSE, "Server error. Please try again.")

\* catch block of GET /api/health
HealthCatch(err) ==
  [status |-> 500, health |-> "error", database |-> "disconnected",
   error |-> err.message, code |-> err.code]

HealthOk == [status |-> 200, health |-> "ok", database |-> "connected"]

-----------------------------------------------------------------------------
(* State                                                                    *)

VARIABLES
  users,        \* the rows of the users relation in the store
  dbReady,      \* server.js dbReady: "null", or the state of the promise it holds
  dbInitError,  \* server.js dbInitError: NoError (null) or the error of the failed attempt
  server,       \* "starting" (not listening yet), "listening", "exited"
  vercel,       \* process.env.VERCEL === '1'
  reqs,         \* per request slot: the request, the handler's position, its response
  browser       \* one browser tab: its location and the state of the page in it

vars == <<users, dbReady, dbInitError, server, vercel, reqs, browser>>

\* the state of the service, which the scripts of the pages do not touch
serverVars == <<users, dbReady, dbInitError, server, vercel, reqs>>

NoError == [none |-> TRUE]

\* no query call made (yet)
NoQuery == [none |-> TRUE]

\* the arguments of a pool.execute call: the SQL text and the parameter array
Query(sql, params) == [sql |-> sql, params |-> params]

Idle ==
  [kind |-> "none", body |-> [none |-> TRUE], pc |-> "idle", steps |-> {},
   query |-> NoQuery, res |-> NoRes]

Free(r) == reqs[r].pc = "idle"

Responded(req, res) == [req EXCEPT !.pc = "done", !.res = res]

-----------------------------------------------------------------------------
(* ensureDb                                                                 *)

\* ensureDb without the reset of lines 35-39
EnsureDbNoRetry(ready, error) ==
  [dbReady |-> IF ready = "null" THEN "pending" ELSE ready,
   dbInitError |-> error,
   retried |-> FALSE,
   started |-> ready = "null"]

\* ensureDb without the test of line 40: every call starts an attempt
EnsureDbAlwaysStarts(ready, error) ==
  [dbReady |-> "pending",
   dbInitError |-> NoError,
   retried |-> error # NoError,
   started |-> TRUE]

EnsureDb(ready, error) ==
  LET retried == error # NoError
      ready1 == IF retried THEN "null" ELSE ready
      error1 == IF retried THEN NoError ELSE error
      started == ready1 = "null"
  IN  [dbReady |-> IF started THEN "pending" ELSE ready1,
       dbInitError |-> error1,
       retried |-> retried,
       started |-> started]

\* the handler's position right after its call of ensureDb
Called(kind, body, e) ==
  [kind |-> kind, body |-> body, pc |-> "awaitDb",
   steps |-> {"ensureDb"} \cup (IF e.retried THEN {"retryInit"} ELSE {})
                          \cup (IF e.started THEN {"initDatabase"} ELSE {}),
   query |-> NoQuery, res |-> NoRes]

-----------------------------------------------------------------------------
(* The handlers, from one await to the next                                 *)

AllFieldsPresent(b) ==
  Truthy(b.user_id) /\ Truthy(b.name) /\ Truthy(b.email) /\ Truthy(b.phone)
    /\ Truthy(b.password)

LoginFieldsPresent(b) == Truthy(b.loginId) /\ Truthy(b.password)

\* the parameter array with the password of the request body in it
InsertParamsPlain(b, hashedPassword) ==
  <<Trim(b.user_id), Trim(b.name), Trim(b.email), Trim(b.phone), b.password>>

InsertParams(b, hashedPassword) ==
  <<Trim(b.user_id), Trim(b.name), Trim(b.email), Trim(b.phone), hashedPassword>>

SelectParams(b) == <<Trim(b.loginId), Trim(b.loginId)>>

\* the register handler answering success whatever the INSERT did
RegisterResultIgnoresError(q) ==
  Json(200, TRUE, "Registration successful. Redirecting to login...")

\* POST /api/register after the INSERT has been awaited
RegisterResult(q) ==
  IF q.ok
  THEN Json(200, TRUE, "Registration successful. Redirecting to login...")
  ELSE RegisterCatch(q.err)

\* the login handler answering success whatever the SELECT did
LoginResultIgnoresError(q, password) == Json(200, TRUE, "Login successful!")

\* POST /api/login after the SELECT has been awaited
LoginResult(q, password) ==
  IF ~q.ok THEN LoginCatch(q.err)
  ELSE IF Len(q.rows) = 0
  THEN Json(401, FALSE, "Invalid User ID/Email or password.")
  ELSE IF ~BcryptCompare(password, q.rows[1].password)
  THEN Json(401, FALSE, "Invalid User ID/Email or password.")
  ELSE Json(200, TRUE, "Login successful!")

HealthResult(q) == IF q.ok THEN HealthOk ELSE HealthCatch(q.err)

\* a catch block that logs the error and sends nothing
CaughtNoResponse(req, err) == req

\* the handler's catch block
Caught(req, err) ==
  Responded(req, CASE req.kind = "register" -> RegisterCatch(err)
                   [] req.kind = "login" -> LoginCatch(err)
                   [] req.kind = "health" -> HealthCatch(err))

\* the handler resumed after `await ensureDb()` was fulfilled, run to its
\* next await or to its response
Proceed(req, tbl) ==
  CASE req.kind = "register" ->
         [req EXCEPT !.pc = "hashing", !.steps = @ \cup {"hash"}]
    [] req.kind = "login" ->
         Responded([req EXCEPT !.steps = @ \cup {"execute"},
                               !.query = Query("SELECT", SelectParams(req.body))],
                   LoginResult(PoolExecute(tbl, "SELECT", SelectParams(req.body)),
                               req.body.password))
    [] req.kind = "health" ->
         Responded([req EXCEPT !.steps = @ \cup {"execute"},
                               !.query = Query("SELECT 1", <<>>)],
                   HealthResult(PoolExecute(tbl, "SELECT 1", <<>>)))

\* the handler calling ensureDb() without awaiting it
EnterNoAwait(r, kind, body) ==
  LET e == EnsureDb(dbReady, dbInitError)
  IN  /\ dbReady' = e.dbReady
      /\ dbInitError' = e.dbInitError
      /\ reqs' = [reqs EXCEPT ![r] = Proceed(Called(kind, body, e), users)]

\* the handler from `await ensureDb()` on
Enter(r, kind, body) ==
  LET e == EnsureDb(dbReady, dbInitError)
      req == Called(kind, body, e)
  IN  /\ dbReady' = e.dbReady
      /\ dbInitError' = e.dbInitError
      /\ reqs' = [reqs EXCEPT ![r] =
                    CASE e.dbReady = "fulfilled" -> Proceed(req, users)
                      [] e.dbReady = "rejected" -> Caught(req, e.dbInitError)
                      [] OTHER -> req]

RegisterRequest(r, body) ==
  /\ server = "listening"
  /\ Free(r)
  /\ IF ~AllFieldsPresent(body)
     THEN /\ reqs' = [reqs EXCEPT ![r] =
                        Responded([Idle EXCEPT !.kind = "register", !.body = body],
                                  Json(400, FALSE, "All fields are required."))]
          /\ UNCHANGED <<dbReady, dbInitError>>
     ELSE Enter(r, "register", body)
  /\ UNCHANGED <<users, server, vercel, browser>>

LoginRequest(r, body) ==
  /\ server = "listening"
  /\ Free(r)
  /\ IF ~LoginFieldsPresent(body)
     THEN /\ reqs' = [reqs EXCEPT ![r] =
                        Responded([Idle EXCEPT !.kind = "login", !.body = body],
                                  Json(400, FALSE, "User ID/Email and password are required."))]
          /\ UNCHANGED <<dbReady, dbInitError>>
     ELSE Enter(r, "login", body)
  /\ UNCHANGED <<users, server, vercel, browser>>

HealthRequest(r) ==
  /\ server = "listening"
  /\ Free(r)
  /\ Enter(r, "health", [none |-> TRUE])
  /\ UNCHANGED <<users, server, vercel, browser>>

\* initDatabase resolves: connection verified, table created if missing
InitDatabaseOk ==
  /\ dbReady = "pending"
  /\ dbReady' = "fulfilled"
  /\ reqs' = [r \in Reqs |-> IF reqs[r].pc = "awaitDb"
                             THEN Proceed(reqs[r], users) ELSE reqs[r]]
  /\ server' = IF server = "starting" THEN "listening" ELSE server
  /\ UNCHANGED <<users, dbInitError, vercel, browser>>

\* initDatabase rejects and the start-up block listens all the same
InitDatabaseFailListens(err) ==
  /\ dbReady = "pending"
  /\ dbReady' = "rejected"
  /\ dbInitError' = err
  /\ reqs' = [r \in Reqs |-> IF reqs[r].pc = "awaitDb"
                             THEN Caught(reqs[r], err) ELSE reqs[r]]
  /\ server' = "listening"
  /\ UNCHANGED <<users, vercel, browser>>

\* initDatabase rejects: the .catch of ensureDb records the error and rethrows
InitDatabaseFail(err) ==
  /\ dbReady = "pending"
  /\ dbReady' = "rejected"
  /\ dbInitError' = err
  /\ reqs' = [r \in Reqs |-> IF reqs[r].pc = "awaitDb"
                             THEN Caught(reqs[r], err) ELSE reqs[r]]
  /\ server' = IF server = "starting" THEN "exited" ELSE server
  /\ UNCHANGED <<users, vercel, browser>>

\* bcrypt.hash resolves; the handler issues its INSERT and responds
HashDone(r, salt) ==
  /\ reqs[r].pc = "hashing"
  /\ reqs[r].body.password.t = "string"
  /\ LET b == reqs[r].body
         params == InsertParams(b, BcryptHash(b.password, salt))
         q == PoolExecute(users, "INSERT", params)
     IN  /\ users' = q.table
         /\ reqs' = [reqs EXCEPT ![r] =
                       Responded([reqs[r] EXCEPT !.steps = @ \cup {"execute"},
                                                 !.query = Query("INSERT", params)],
                                 RegisterResult(q))]
  /\ UNCHANGED <<dbReady, dbInitError, server, vercel, browser>>

\* bcrypt.hash rejects (the password is no string)
HashFail(r) ==
  /\ reqs[r].pc = "hashing"
  /\ reqs[r].body.password.t # "string"
  /\ reqs' = [reqs EXCEPT ![r] = Caught(reqs[r], HashDataError)]
  /\ UNCHANGED <<users, dbReady, dbInitError, server, vercel, browser>>

\* the response has been sent and the request is over: its slot is free again
Forget(r) ==
  /\ reqs[r].pc = "done"
  /\ reqs' = [reqs EXCEPT ![r] = Idle]
  /\ UNCHANGED <<users, dbReady, dbInitError, server, vercel, browser>>

-----------------------------------------------------------------------------
(* Request bodies                                                           *)

RegisterBody(u, n, e, ph, pw) ==
  [user_id |-> u, name |-> n, email |-> e, phone |-> ph, password |-> pw]

LoginBody(id, pw) == [loginId |-> id, password |-> pw]

\* Spec: requests in flight together, few bodies
RegisterBodies ==
  { RegisterBody(Str(<<"c">>), Str(<<"n">>), Str(<<"f">>), Str(<<"5">>), Str(<<"p">>)),
    RegisterBody(Str(<<"c">>), Str(<<"n">>), Str(<<"g">>), Str(<<"5">>), Str(<<"p">>)),
    RegisterBody(Str(<<"d">>), Str(<<"n">>), Str(<<"f">>), Str(<<"5">>), Num),
    RegisterBody(Str(<<"d">>), Str(<<"n">>), Str(<<"g">>), Undefined, Str(<<"p">>)) }

LoginBodies == { LoginBody(Str(<<"a">>), Str(<<"p">>)), LoginBody(Str(<<"a">>), Str(<<"q">>)) }

\* the faults of initDatabase that Spec draws from
SomeInitFaults == {ConnRefused, HostNotFound}

\* SpecInputs: one request at a time, every combination of these field
\* values: absent, empty, spaces only, and good values with and without
\* surrounding spaces
AllRegisterBodies ==
  { RegisterBody(u, n, e, ph, pw) :
      u \in {Undefined, Str(<<" ">>), Str(<<"a">>), Str(<<" ", "c", " ">>)},
      n \in {Undefined, Str(<<" ">>), Str(<<"n", " ">>)},
      e \in {Str(<<>>), Str(<<" ">>), Str(<<"a">>), Str(<<" ", "f">>)},
      ph \in {Str(<<>>), Str(<<" ", " ">>), Str(<<"5">>)},
      pw \in {Undefined, Str(<<>>), Str(<<"p">>), Num} }

AllLoginBodies ==
  { LoginBody(id, pw) :
      id \in {Undefined, Str(<<>>), Str(<<" ">>), Str(<<"a">>), Str(<<"b">>),
              Str(<<" ", "e">>), Str(<<"z">>)},
      pw \in {Undefined, Str(<<>>), Str(<<"p">>), Str(<<"q">>)} }

-----------------------------------------------------------------------------
(* The pages: script.js (the two forms) and fastRedirect of effects.js.     *)
(* A response is what fetch and res.json() hand to the page; the page does  *)
(* not depend on which server produced it.                                  *)

RegisterPage == "/register.html"
LoginPage == "/login.html"

\* the element's text (a string value's .s) and classes: 'show' is removed
\* by hideMessage only
NoMessage == [text |-> <<>>, isError |-> FALSE, show |-> FALSE]

\* the fetches of the document that have not settled, oldest first: none
NoFetch == <<>>

\* Number of fetches one document can have in flight.
MaxFetch == 2

\* a sequence without its i-th element
Without(seq, i) == SubSeq(seq, 1, i - 1) \o SubSeq(seq, i + 1, Len(seq))

\* the input fields of the page's form, all empty
EmptyForm(url) ==
  CASE url = RegisterPage ->
         [user_id |-> Str(<<>>), name |-> Str(<<>>), email |-> Str(<<>>),
          phone |-> Str(<<>>), password |-> Str(<<>>)]
    [] url = LoginPage -> [loginId |-> Str(<<>>), password |-> Str(<<>>)]
    [] OTHER -> [none |-> TRUE]

\* a document freshly loaded at url; fastRedirect is there when effects.js ran
Document(url, hasFastRedirect) ==
  [location |-> url, fastRedirect |-> hasFastRedirect, form |-> EmptyForm(url),
   disabled |-> FALSE, message |-> NoMessage, fetch |-> NoFetch, overlay |-> FALSE,
   timers |-> <<>>,
   intro |-> "none", introTimer |-> FALSE, introDone |-> FALSE, introRuns |-> 0]

\* no page of the application is open
Closed == Document("about:blank", FALSE)

showMessage(b, text, isError) ==
  [b EXCEPT !.message = [text |-> text, isError |-> isError, show |-> TRUE]]

hideMessage(b) == [b EXCEPT !.message.show = FALSE]

\* data.message || fallback
MessageOr(data, fallback) ==
  IF Truthy(data.message) THEN data.message.s ELSE fallback

\* setTimeout(() => { window.location.href = url }, 800)
SetRedirectTimeout(b, url) == [b EXCEPT !.timers = Append(@, url)]

\* effects.js fastRedirect: the loading overlay at once, the navigation later
fastRedirect(b, url) == SetRedirectTimeout([b EXCEPT !.overlay = TRUE], url)

\* window.fastRedirect if effects.js defined it, the plain timeout otherwise
Redirect(b, url) == IF b.fastRedirect THEN fastRedirect(b, url) ELSE SetRedirectTimeout(b, url)

\* the submit handler up to its fetch, leaving the button as it is
SubmittedButtonEnabled(b, path, payload) ==
  [hideMessage(b) EXCEPT !.fetch = Append(@, [path |-> path, payload |-> payload])]

\* the submit handler up to its fetch
Submitted(b, path, payload) ==
  [hideMessage(b) EXCEPT !.disabled = TRUE,
                         !.fetch = Append(@, [path |-> path, payload |-> payload])]

\* the branch of the submit handler for a response that is no success
Failed(b, i, text) ==
  [showMessage(b, text, TRUE) EXCEPT !.disabled = FALSE, !.fetch = Without(@, i)]

\* the branch of the submit handler for a success: message and redirect
Succeeded(b, i, text, url) ==
  Redirect([showMessage(b, text, FALSE) EXCEPT !.fetch = Without(@, i)], url)

\* Number of times the model lets the intro start in one session.
MaxIntroRuns == 2

\* effects.js runIntro on a fresh document; introDone is the sessionStorage
\* item 'netflix-intro-done', introRuns counts the entries into intro-active
runIntro(b) ==
  IF b.introDone
  THEN [b EXCEPT !.intro = "complete"]
  ELSE [b EXCEPT !.intro = "active", !.introTimer = TRUE, !.introRuns = @ + 1]

\* the tab loads url: a fresh document, the session storage of the tab kept;
\* a page that runs effects.js (and then holds the intro overlay) runs init
Load(b, url, hasFastRedirect) ==
  LET doc == [Document(url, hasFastRedirect) EXCEPT !.introDone = b.introDone,
                                                    !.introRuns = b.introRuns]
  IN  IF hasFastRedirect THEN runIntro(doc) ELSE doc

\* the cap of the model on the starts of the intro
CanLoad(b, hasFastRedirect) ==
  (hasFastRedirect /\ ~b.introDone) => b.introRuns < MaxIntroRuns

\* the user opens or reloads one of the two pages
Open(url, hasFastRedirect) ==
  /\ CanLoad(browser, hasFastRedirect)
  /\ browser' = Load(browser, url, hasFastRedirect)
  /\ UNCHANGED serverVars

\* the timeout of runIntro fires: the intro fades out and the session
\* storage item is set
IntroTimerFires ==
  /\ browser.introTimer
  /\ browser' = [browser EXCEPT !.intro = "complete", !.introDone = TRUE,
                                !.introTimer = FALSE]
  /\ UNCHANGED serverVars

\* the user fills in the fields of the form
Type(url, form) ==
  /\ browser.location = url
  /\ browser' = [browser EXCEPT !.form = form]
  /\ UNCHANGED serverVars

\* A form whose submit button is disabled is not submitted by the browser
\* (neither by a click nor by Enter in a field).
RegisterSubmit ==
  /\ browser.location = RegisterPage
  /\ ~browser.disabled
  /\ Len(browser.fetch) < MaxFetch
  /\ LET form == browser.form
     IN  browser' = Submitted(browser, "/api/register",
                              RegisterBody(Trim(form.user_id), Trim(form.name),
                                           Trim(form.email), Trim(form.phone),
                                           form.password))
  /\ UNCHANGED serverVars

RegisterResponse(i, data) ==
  /\ browser.location = RegisterPage
  /\ i \in 1 .. Len(browser.fetch)
  /\ browser' =
       IF data.success
       THEN Succeeded(browser, i,
                      MessageOr(data, <<"Registration successful. Redirecting...">>),
                      LoginPage)
       ELSE Failed(browser, i, MessageOr(data, <<"Registration failed.">>))
  /\ UNCHANGED serverVars

LoginSubmit ==
  /\ browser.location = LoginPage
  /\ ~browser.disabled
  /\ Len(browser.fetch) < MaxFetch
  /\ browser' = Submitted(browser, "/api/login",
                          LoginBody(Trim(browser.form.loginId), browser.form.password))
  /\ UNCHANGED serverVars

LoginResponse(i, data) ==
  /\ browser.location = LoginPage
  /\ i \in 1 .. Len(browser.fetch)
  /\ browser' =
       IF data.success
       THEN Succeeded(browser, i,
                      MessageOr(data, <<"Login successful! Redirecting...">>),
                      "https://netflix-clone-v.vercel.app/")
       ELSE Failed(browser, i, MessageOr(data, <<"Invalid credentials.">>))
  /\ UNCHANGED serverVars

\* fetch or res.json() rejects
NetworkError(i) ==
  /\ i \in 1 .. Len(browser.fetch)
  /\ browser' = Failed(browser, i, <<"Network error. Please try again.">>)
  /\ UNCHANGED serverVars

\* the oldest timeout fires (all have the same delay): the tab leaves the
\* document for the url; a page of the application is loaded afresh
TimerFires(hasFastRedirect) ==
  /\ browser.timers # <<>>
  /\ LET url == Head(browser.timers)
         effects == url \in {RegisterPage, LoginPage} /\ hasFastRedirect
     IN  /\ CanLoad(browser, effects)
         /\ browser' = Load(browser, url, effects)
  /\ UNCHANGED serverVars

\* what the user has typed into the forms
RegisterForms ==
  { RegisterBody(u, Str(<<"n">>), Str(<<"f">>), Str(<<"5">>), pw) :
      u \in {Str(<<"c">>), Str(<<" ", "c">>)}, pw \in {Str(<<"p">>)} }

LoginForms ==
  { LoginBody(id, pw) :
      id \in {Str(<<"a">>), Str(<<" ", "a", " ">>)}, pw \in {Str(<<"p">>)} }

\* the parsed JSON of a response: what the handlers of server.js send, and
\* bodies without a message
ResponseData ==
  { [success |-> TRUE, message |-> Str(<<"Login successful!">>)],
    [success |-> TRUE, message |-> Undefined],
    [success |-> FALSE, message |-> Str(<<"Invalid User ID/Email or password.">>)],
    [success |-> FALSE, message |-> Str(<<"Server error. Please try again.">>)],
    [success |-> FALSE, message |-> Undefined] }

-----------------------------------------------------------------------------
(* Specifications                                                           *)

\* module load: on Vercel nothing is initialised until the first request;
\* run locally, the start-up block has called ensureDb and listens later
Init ==
  /\ users \in InitialTables
  /\ vercel \in BOOLEAN
  /\ server = IF vercel THEN "listening" ELSE "starting"
  /\ dbReady = IF vercel THEN "null" ELSE EnsureDb("null", NoError).dbReady
  /\ dbInitError = NoError
  /\ reqs = [r \in Reqs |-> Idle]
  /\ browser = Closed

Next ==
  \/ \E r \in Reqs, body \in RegisterBodies : RegisterRequest(r, body)
  \/ \E r \in Reqs, body \in LoginBodies : LoginRequest(r, body)
  \/ \E r \in Reqs : HealthRequest(r)
  \/ InitDatabaseOk
  \/ \E err \in SomeInitFaults : InitDatabaseFail(err)
  \/ \E r \in Reqs, salt \in Salts : HashDone(r, salt)
  \/ \E r \in Reqs : HashFail(r)
  \/ \E r \in Reqs : Forget(r)

Spec == Init /\ [][Next]_vars

\* the requests of SpecFair: a register request whose hashing completes,
\* one whose hashing fails, and a login request
FairRegisterBodies ==
  { body \in RegisterBodies :
      body.phone # Undefined /\ body.email = Str(<<"f">>) }

FairLoginBodies == { body \in LoginBodies : body.password = Str(<<"p">>) }

FairInitFaults == {ConnRefused}

FairSalts == {"s1"}

NextFair ==
  \/ \E r \in Reqs, body \in FairRegisterBodies : RegisterRequest(r, body)
  \/ \E r \in Reqs, body \in FairLoginBodies : LoginRequest(r, body)
  \/ InitDatabaseOk
  \/ \E err \in FairInitFaults : InitDatabaseFail(err)
  \/ \E r \in Reqs, salt \in FairSalts : HashDone(r, salt)
  \/ \E r \in Reqs : HashFail(r)
  \/ \E r \in Reqs : Forget(r)

\* every started initDatabase and every started bcrypt.hash settles in the
\* end: the store and the hashing complete or fail
Fairness ==
  /\ WF_vars(InitDatabaseOk \/ \E err \in FairInitFaults : InitDatabaseFail(err))
  /\ \A r \in Reqs :
       WF_vars((\E salt \in FairSalts : HashDone(r, salt)) \/ HashFail(r))

SpecFair == Init /\ [][NextFair]_vars /\ Fairness

NextInputs ==
  \/ \E body \in AllRegisterBodies : RegisterRequest(1, body)
  \/ \E body \in AllLoginBodies : LoginRequest(1, body)
  \/ HealthRequest(1)
  \/ InitDatabaseOk
  \/ \E err \in InitFaults : InitDatabaseFail(err)
  \/ \E salt \in Salts : HashDone(1, salt)
  \/ HashFail(1)
  \/ Forget(1)

SpecInputs == Init /\ [][NextInputs]_vars

\* the pages alone, against a service deployed on Vercel that answers
\* with any of ResponseData
InitPages ==
  /\ users = {}
  /\ vercel = TRUE
  /\ server = "listening"
  /\ dbReady = "null"
  /\ dbInitError = NoError
  /\ reqs = [r \in Reqs |-> Idle]
  /\ \E url \in {RegisterPage, LoginPage}, hasFastRedirect \in BOOLEAN :
       browser = Load(Closed, url, hasFastRedirect)

NextPages ==
  \/ \E url \in {RegisterPage, LoginPage}, hasFastRedirect \in BOOLEAN :
       Open(url, hasFastRedirect)
  \/ \E form \in RegisterForms : Type(RegisterPage, form)
  \/ \E form \in LoginForms : Type(LoginPage, form)
  \/ RegisterSubmit
  \/ \E i \in 1 .. MaxFetch, data \in ResponseData : RegisterResponse(i, data)
  \/ LoginSubmit
  \/ \E i \in 1 .. MaxFetch, data \in ResponseData : LoginResponse(i, data)
  \/ \E i \in 1 .. MaxFetch : NetworkError(i)
  \/ \E hasFastRedirect \in BOOLEAN : TimerFires(hasFastRedirect)
  \/ IntroTimerFires

SpecPages == InitPages /\ [][NextPages]_vars

-----------------------------------------------------------------------------
(* Vocabulary of the properties                                             *)

RegisterDone(r) == reqs[r].kind = "register" /\ reqs[r].pc = "done"

LoginDone(r) == reqs[r].kind = "login" /\ reqs[r].pc = "done"

\* the step in which a register request is answered
RegisterResponds(r) ==
  reqs[r].pc # "done" /\ reqs'[r].pc = "done" /\ reqs'[r].kind = "register"

\* the step in which a handler calls ensureDb
CallsEnsureDb(r) == "ensureDb" \notin reqs[r].steps /\ "ensureDb" \in reqs'[r].steps

\* the error taxonomy, read off a register / login response
ErrorClass(res) ==
  CASE res.success = TRUE -> "Success"
    [] res.status = 400 /\ res.message \in {"All fields are required.",
                                            "User ID/Email and password are required."}
         -> "ValidationError"
    [] res.status = 400 /\ res.message = "User ID or Email already exists."
         -> "DuplicateUserError"
    [] res.status = 401 -> "InvalidCredentialsError"
    [] res.status = 500 /\ res.message = "Server error. Please try again."
         -> "InternalError"
    [] OTHER -> "StoreUnavailableError"

\* absent, or empty after trimming surrounding whitespace
Blank(v) == v = Undefined \/ (v.t = "string" /\ Trim(v) = Str(<<>>))

AnyRegisterFieldBlank(b) ==
  Blank(b.user_id) \/ Blank(b.name) \/ Blank(b.email) \/ Blank(b.phone) \/ Blank(b.password)

\* the rows the identifier lookup (user_id = id OR email = id) selects
Lookup(tbl, id) == { row \in tbl : row.user_id = id \/ row.email = id }

\* two register bodies with the same trimmed user_id or the same trimmed email
Collide(b1, b2) == Trim(b1.user_id) = Trim(b2.user_id) \/ Trim(b1.email) = Trim(b2.email)

\* the handler got past initialisation and issued its query: the store was reachable
Queried(r) == "execute" \in reqs[r].steps

\* the handler's await of ensureDb was rejected
FailedAtInit(r) ==
  /\ reqs[r].pc = "done"
  /\ "ensureDb" \in reqs[r].steps
  /\ reqs[r].steps \cap {"hash", "execute"} = {}

-----------------------------------------------------------------------------
(* Properties                                                               *)

\* C1: with the store reachable, login with the user_id or the email of a
\* stored record and the password that record was registered with returns
\* success (also when the identifier is another record's other column).
C1_LoginOfStoredRecordSucceeds ==
  \A r \in Reqs :
    (/\ LoginDone(r)
     /\ Queried(r)
     /\ \E row \in Lookup(users, Trim(reqs[r].body.loginId).s) :
          BcryptCompare(reqs[r].body.password, row.password))
    => reqs[r].res.success = TRUE

\* C2: in every reachable state no two stored records share a user_id and
\* no two share an email, and of two registrations that collide on user_id
\* or email at most one returns success.
C2_UniqueUnderConcurrentRegister ==
  /\ \A row1, row2 \in users :
       row1 # row2 => row1.user_id # row2.user_id /\ row1.email # row2.email
  /\ \A r1, r2 \in Reqs :
       (r1 # r2 /\ RegisterDone(r1) /\ RegisterDone(r2) /\ Queried(r1) /\ Queried(r2)
          /\ Collide(reqs[r1].body, reqs[r2].body))
       => ~(reqs[r1].res.success = TRUE /\ reqs[r2].res.success = TRUE)

\* two different registrations that collide have both issued their INSERT
\* and been answered, with rows in the store
C2_Witness ==
  /\ users # {}
  /\ \E r1, r2 \in Reqs :
       /\ r1 # r2 /\ RegisterDone(r1) /\ RegisterDone(r2) /\ Queried(r1) /\ Queried(r2)
       /\ Collide(reqs[r1].body, reqs[r2].body)
       /\ reqs[r1].body # reqs[r2].body

\* C3: register with a field that is absent or empty after trimming fails
\* with the 'all fields required' validation error and neither initialises
\* nor queries the store.
C3_BlankFieldIsValidationError ==
  \A r \in Reqs :
    (RegisterDone(r) /\ AnyRegisterFieldBlank(reqs[r].body))
    => /\ reqs[r].res = Json(400, FALSE, "All fields are required.")
       /\ reqs[r].steps = {}

\* C4: login with an absent or empty password, or with an identifier that
\* is absent or empty after trimming, fails with the validation error and
\* without store access.
C4_BlankIdentifierIsValidationError ==
  \A r \in Reqs :
    (LoginDone(r) /\ (~Truthy(reqs[r].body.password) \/ Blank(reqs[r].body.loginId)))
    => /\ ErrorClass(reqs[r].res) = "ValidationError"
       /\ reqs[r].steps = {}

C5_DuplicateStep ==
  \A r \in Reqs :
    (/\ RegisterResponds(r)
     /\ "execute" \in reqs'[r].steps
     /\ ~AnyRegisterFieldBlank(reqs'[r].body)
     /\ \E row \in users : \/ row.user_id = Trim(reqs'[r].body.user_id).s
                           \/ row.email = Trim(reqs'[r].body.email).s)
    => reqs'[r].res = Json(400, FALSE, "User ID or Email already exists.")

\* C5: a register request whose trimmed user_id or trimmed email is the one
\* of an existing record is answered with the duplicate-user client fault,
\* the same status and message whichever field collided.
C5_DuplicateIsClientFault == [][C5_DuplicateStep]_vars

\* C6: login with an identifier that matches no record, and login with a
\* password other than the registered one, both fail with the one
\* invalid-credentials outcome.
C6_UnknownAndWrongAreInvalidCredentials ==
  \A r \in Reqs :
    (/\ LoginDone(r)
     /\ Queried(r)
     /\ \A row \in Lookup(users, Trim(reqs[r].body.loginId).s) :
          ~BcryptCompare(reqs[r].body.password, row.password))
    => reqs[r].res = Json(401, FALSE, "Invalid User ID/Email or password.")

C7_FreshStep ==
  \A r \in Reqs :
    LET b == reqs'[r].body IN
    (/\ RegisterResponds(r)
     /\ "execute" \in reqs'[r].steps
     /\ ~AnyRegisterFieldBlank(b)
     /\ \A row \in users : row.user_id # Trim(b.user_id).s /\ row.email # Trim(b.email).s)
    => /\ reqs'[r].res.success = TRUE
       /\ users \subseteq users'
       /\ Cardinality(users' \ users) = 1
       /\ \E row \in users' \ users :
            /\ row.user_id = Trim(b.user_id).s /\ row.name = Trim(b.name).s
            /\ row.email = Trim(b.email).s /\ row.phone = Trim(b.phone).s
            /\ row \in Lookup(users', Trim(b.user_id).s)
            /\ row \in Lookup(users', Trim(b.email).s)

\* C7: with the store reachable, register with five non-empty fields and a
\* trimmed user_id and email that no record holds returns success, adds
\* exactly one record with the trimmed fields, and the lookup finds that
\* record by its user_id and by its email.
C7_FreshRegisterSucceeds == [][C7_FreshStep]_vars

\* C8: for every store fault, login returns the error class register
\* returns for it, and every unreachable or misconfigured store is reported
\* as StoreUnavailableError.
C8_FaultsClassifiedAlike ==
  \A r \in Reqs :
    (FailedAtInit(r) /\ reqs[r].kind \in {"register", "login"} /\ dbInitError # NoError)
    => /\ ErrorClass(reqs[r].res) = ErrorClass(RegisterCatch(dbInitError))
       /\ ErrorClass(reqs[r].res) = ErrorClass(LoginCatch(dbInitError))
       /\ dbInitError \in UnreachableFaults \cup MisconfiguredFaults
            => ErrorClass(reqs[r].res) = "StoreUnavailableError"

C9_RegisterStep ==
  /\ \A r \in Reqs :
       RegisterResponds(r)
       => IF reqs'[r].res.success = TRUE
          THEN users \subseteq users' /\ Cardinality(users') = Cardinality(users) + 1
          ELSE users' = users
  /\ users' # users => \E r \in Reqs : RegisterResponds(r) /\ reqs'[r].res.success = TRUE

\* C9: a register request answered with a failure leaves the users relation
\* as it was, one answered with success has added exactly one record, and
\* the relation changes in no other step.
C9_NoPartialWrite == [][C9_RegisterStep]_vars

\* a register request has issued its INSERT and been answered with a failure
C9_Witness ==
  \E r \in Reqs : RegisterDone(r) /\ Queried(r) /\ reqs[r].res.success = FALSE

C10_EnsureDbStep ==
  /\ \A r \in Reqs :
       (CallsEnsureDb(r) /\ (dbInitError # NoError \/ dbReady = "rejected"))
       => /\ dbReady' = "pending"
          /\ dbInitError' = NoError
          /\ reqs'[r].pc = "awaitDb"
          /\ "initDatabase" \in reqs'[r].steps
  /\ (dbReady = "pending" /\ dbReady' = "fulfilled")
       => \A r \in Reqs :
            reqs[r].pc = "awaitDb" => reqs'[r].steps \cap {"hash", "execute"} # {}

\* C10: after a failed initialisation the next call of ensureDb starts a
\* fresh attempt and waits for it instead of returning the cached failure,
\* and when an attempt succeeds every request waiting for it goes on to its
\* hashing or its query.
C10_RetryAfterFailedInit == [][C10_EnsureDbStep]_vars

\* a request that found the failed attempt has had its own attempt succeed
\* and has gone on
C10_Witness ==
  \E r \in Reqs :
    "retryInit" \in reqs[r].steps /\ reqs[r].steps \cap {"hash", "execute"} # {}

\* C11: a register or login request has called pool.execute only if an
\* initialisation has succeeded, and a request whose awaited initialisation
\* failed made no query call and was answered with a server fault.
C11_QueryOnlyAfterInit ==
  \A r \in Reqs :
    reqs[r].kind \in {"register", "login"}
    => /\ (Queried(r) \/ reqs[r].query # NoQuery) => dbReady = "fulfilled"
       /\ FailedAtInit(r) => /\ reqs[r].query = NoQuery
                             /\ reqs[r].res.status = 500
                             /\ reqs[r].res.success = FALSE

\* one request was answered after its initialisation failed, and another
\* has waited for a later attempt and made its query call
C11_Witness ==
  \E r1, r2 \in Reqs :
    /\ reqs[r1].kind \in {"register", "login"} /\ FailedAtInit(r1)
    /\ reqs[r2].kind \in {"register", "login"} /\ reqs[r2].query # NoQuery
    /\ "retryInit" \in reqs[r2].steps

C12_FrameStep ==
  /\ users \subseteq users'
  /\ \A r \in Reqs :
       (reqs'[r].kind = "login" /\ reqs'[r] # reqs[r]) => users' = users

\* C12: every step keeps every stored record with every field as it was
\* (the relation only grows), and a step of a login request leaves the
\* relation unchanged.
C12_RecordsNeverChange == [][C12_FrameStep]_vars

\* a register request with the user_id or email of a stored record has made
\* its INSERT call and been answered, and that record is still stored
C12_Witness ==
  \E r \in Reqs :
    /\ RegisterDone(r) /\ Queried(r)
    /\ \E row \in users : \/ row.user_id = reqs[r].query.params[1].s
                          \/ row.email = reqs[r].query.params[3].s

\* a column value that is not empty and has no surrounding whitespace
Trimmed(s) == s # <<>> /\ Trim(Str(s)).s = s

ClassMessages ==
  { "User ID or Email already exists.",
    "Database configuration error. Please check server logs.",
    "Database configuration error. Check Vercel environment variables.",
    "Database connection failed. Please try again later.",
    "Database host not found. Check DB_HOST environment variable.",
    "Server error. Please try again." }

\* the handler's catch block answered: initialisation, hashing or the query failed
AnsweredByCatch(r) ==
  /\ reqs[r].pc = "done"
  /\ reqs[r].kind \in {"register", "login"}
  /\ "ensureDb" \in reqs[r].steps
  /\ reqs[r].res.status \notin {200, 401}

\* C14: the response to a register or login request that failed on a store
\* or hashing fault consists of status, success flag and one of the fixed
\* class-level messages, and of no field taken from the error.
C14_FaultResponseIsClassMessage ==
  \A r \in Reqs :
    AnsweredByCatch(r)
    => /\ DOMAIN reqs[r].res = {"status", "success", "message"}
       /\ reqs[r].res.success = FALSE
       /\ reqs[r].res.message \in ClassMessages

\* a login answered after its initialisation failed, beside a register
\* answered after its hashing failed
C14_Witness ==
  \E r1, r2 \in Reqs :
    /\ reqs[r1].kind = "login" /\ FailedAtInit(r1)
    /\ reqs[r2].kind = "register" /\ AnsweredByCatch(r2)
    /\ "hash" \in reqs[r2].steps /\ ~Queried(r2)

\* a value bcrypt.hash produced: the salted hash of some string
IsSaltedHash(v) ==
  /\ DOMAIN v = {"alg", "rounds", "salt", "of"}
  /\ v.alg = "bcrypt" /\ v.rounds = SaltRounds /\ v.salt \in Salts

\* C15: the password of every stored record is a salted bcrypt hash, and
\* the password parameter of every INSERT call is the salted hash of the
\* request's password and not that password itself.
C15_PasswordStoredHashed ==
  /\ \A row \in users : IsSaltedHash(row.password)
  /\ \A r \in Reqs :
       (reqs[r].kind = "register" /\ reqs[r].query # NoQuery)
       => /\ IsSaltedHash(reqs[r].query.params[5])
          /\ reqs[r].query.params[5] # reqs[r].body.password
          /\ BcryptCompare(reqs[r].body.password, reqs[r].query.params[5])

\* a register request has hashed its password and made its INSERT call
C15_Witness ==
  \E r \in Reqs :
    /\ RegisterDone(r) /\ "hash" \in reqs[r].steps
    /\ reqs[r].query # NoQuery /\ reqs[r].query.sql = "INSERT"

\* the address the README and the comment above initLoginForm name
LandingUrl == "https://netflix-landing-eta.vercel.app/"

\* the step in which the login page handles the outcome of its fetch
LoginAnswered ==
  /\ browser.location = LoginPage /\ browser'.location = LoginPage
  /\ Len(browser'.fetch) < Len(browser.fetch)
  /\ browser'.message.show

C16_LoginStep ==
  /\ (LoginAnswered /\ ~browser'.message.isError) => browser'.timers = <<LandingUrl>>
  /\ (LoginAnswered /\ browser'.message.isError) => browser'.timers = <<>>
  /\ (browser.location = LoginPage /\ browser'.location \notin {LoginPage, RegisterPage})
       => browser'.location = LandingUrl

\* C16: when its login request is answered with success the login page
\* schedules the navigation to the landing address and the tab leaves the
\* login page for that address only; when the request fails no navigation
\* is scheduled.
C16_LoginRedirectsToLanding == [][C16_LoginStep]_vars

\* C17: whenever a login request has made its SELECT call, at most one
\* stored record has the (trimmed) identifier as its user_id or its email.
C17_LookupYieldsAtMostOne ==
  \A r \in Reqs :
    (LoginDone(r) /\ reqs[r].query # NoQuery)
    => Cardinality(Lookup(users, reqs[r].query.params[1].s)) <= 1

\* the step in which a handler's call of ensureDb calls initDatabase
StartsInitDatabase(r) ==
  "initDatabase" \notin reqs[r].steps /\ "initDatabase" \in reqs'[r].steps

C18_InitStep ==
  /\ \A r \in Reqs :
       StartsInitDatabase(r) => dbReady \notin {"pending", "fulfilled"} /\ dbReady' = "pending"
  /\ \A r \in Reqs :
       (CallsEnsureDb(r) /\ dbReady = "pending")
       => dbReady' = "pending" /\ reqs'[r].pc = "awaitDb" /\ ~StartsInitDatabase(r)
  /\ dbReady = "fulfilled" => dbReady' = "fulfilled"
  /\ (dbReady = "pending" /\ dbReady' # "pending")
       => \A r \in Reqs : reqs[r].pc = "awaitDb" => reqs'[r].pc # "awaitDb"

\* C18: a call of ensureDb calls initDatabase only when no attempt is
\* pending and none has succeeded; a call made while an attempt is pending
\* waits for that attempt, whose settling resumes every waiter; after a
\* success no attempt is started again.
C18_SingleInitAttempt == [][C18_InitStep]_vars

\* two requests wait for the one pending attempt, which one of them started
C18_Witness ==
  \E r1, r2 \in Reqs :
    /\ r1 # r2 /\ dbReady = "pending"
    /\ reqs[r1].pc = "awaitDb" /\ "initDatabase" \in reqs[r1].steps
    /\ reqs[r2].pc = "awaitDb" /\ "initDatabase" \notin reqs[r2].steps

\* C19: a login request is answered with success only if a stored record
\* has the trimmed identifier as user_id or email and a hash the password
\* verifies against; with an empty store no login is answered with success.
C19_SuccessOnlyWithVerifiedRecord ==
  \A r \in Reqs :
    (LoginDone(r) /\ reqs[r].res.success = TRUE)
    => \E row \in Lookup(users, Trim(reqs[r].body.loginId).s) :
         BcryptCompare(reqs[r].body.password, row.password)

\* a login request has made its SELECT call against an empty store and
\* been answered with a failure
C19_Witness ==
  /\ users = {}
  /\ \E r \in Reqs : LoginDone(r) /\ Queried(r) /\ reqs[r].res.success = FALSE

\* the handler is suspended at an await
Suspended(r) == reqs[r].pc \in {"awaitDb", "hashing"}

C20_OneResponseStep ==
  \A r \in Reqs :
    reqs[r].res # NoRes => reqs'[r].res = reqs[r].res \/ reqs'[r] = Idle

\* C20: with every initialisation and every hashing settling in the end,
\* every suspended request is answered; an answer is never replaced by a
\* second one and a request nobody answered is never over; and while one
\* request is suspended a free slot can take up and run another request.
C20_EveryRequestAnsweredOnce ==
  /\ \A r \in Reqs : Suspended(r) ~> (reqs[r].pc = "done")
  /\ [][C20_OneResponseStep]_vars
  /\ [](\A r \in Reqs : reqs[r].pc = "done" <=> reqs[r].res # NoRes)
  /\ [](\A r1, r2 \in Reqs :
          (Suspended(r1) /\ Free(r2))
          => ENABLED (\E body \in FairLoginBodies : LoginRequest(r2, body)))

\* one request still waits for its hashing while another, which came
\* after it, has been answered
C20_Witness ==
  \E r1, r2 \in Reqs :
    /\ reqs[r1].pc = "hashing"
    /\ reqs[r2].pc = "done" /\ reqs[r2].kind \in {"register", "login"}
    /\ "ensureDb" \in reqs[r2].steps /\ "initDatabase" \notin reqs[r2].steps
    /\ "initDatabase" \in reqs[r1].steps

C21_StartupStep ==
  /\ (server = "starting" /\ server' = "listening")
       => dbReady = "pending" /\ dbReady' = "fulfilled"
  /\ (server = "starting" /\ dbReady' = "rejected") => server' = "exited"
  /\ server = "exited"
       => server' = "exited" /\ dbReady' = dbReady /\ reqs' = reqs /\ users' = users

\* C21: run locally, the server is not listening and takes no request
\* until the initialisation the start-up block began has succeeded; when
\* that initialisation fails the process exits, and from then on it never
\* listens, starts no further attempt and handles no request.
C21_ListenOnlyAfterInit ==
  /\ [](~vercel => /\ server \in {"starting", "listening", "exited"}
                   /\ server = "listening" => dbReady = "fulfilled"
                   /\ server = "starting" => dbReady = "pending"
                   /\ server = "exited" => dbReady = "rejected"
                   /\ server # "listening" => \A r \in Reqs : reqs[r].pc = "idle")
  /\ [][~vercel => C21_StartupStep]_vars

\* run locally, the start-up initialisation has failed and the process is gone
C21_Witness == ~vercel /\ server = "exited" /\ dbInitError # NoError

\* the step in which a form's submit handler starts its fetch
FormSubmitted == Len(browser'.fetch) > Len(browser.fetch)

\* the step in which a form's submit handler handles the outcome of its fetch
FormAnswered ==
  /\ browser'.location = browser.location
  /\ Len(browser'.fetch) < Len(browser.fetch)
  /\ browser'.message.show

C22_FormStep ==
  /\ FormSubmitted => browser'.disabled /\ ~browser'.message.show
  /\ (FormAnswered /\ browser'.message.isError)
       => ~browser'.disabled /\ browser'.timers = browser.timers
  /\ (FormAnswered /\ ~browser'.message.isError)
       => browser'.disabled /\ browser'.timers = Append(browser.timers, Head(browser'.timers))

\* C22: on either form page at most one fetch is in flight and the submit
\* button is disabled while it is and while a redirect is scheduled; a
\* submission disables the button; a failure response or a network error
\* shows an error message, enables the button and schedules nothing; a
\* success keeps the button disabled and schedules one redirect, the only
\* one of the page.
C22_OneSubmissionAtATime ==
  /\ [](/\ Len(browser.fetch) <= 1
        /\ Len(browser.timers) <= 1
        /\ (browser.fetch # NoFetch \/ browser.timers # <<>>) => browser.disabled)
  /\ [][C22_FormStep]_vars

\* a submission failed, the button was enabled again, and a second
\* submission of the form is in flight
C22_Witness ==
  /\ browser.location \in {RegisterPage, LoginPage}
  /\ Len(browser.fetch) = 1 /\ browser.disabled
  /\ browser.message.isError /\ ~browser.message.show

\* C23: in one browser session the intro-active state is entered at most
\* once, whatever pages are loaded, left or reloaded and whenever.
C23_IntroAtMostOncePerSession == browser.introRuns <= 1

====
